---- MODULE Spec2Model ----
(***************************************************************************)
(* A model of chameleon/tal.py: the clause parsers (split_parts,           *)
(* parse_attributes, parse_substitution, parse_defines), the attribute     *)
(* merger prepare_attributes, and the repeat runtime (RepeatItem,          *)
(* RepeatDict).                                                            *)
(*                                                                         *)
(* Text is a sequence of one-character strings, so that the regular        *)
(* expressions of the source can be modelled character by character.       *)
(* Python objects (tuple iterators, RepeatItem instances) live in heaps    *)
(* indexed by their identity; identity 0 is None.                          *)
(***************************************************************************)
EXTENDS Integers, Sequences, FiniteSets, TLC

VARIABLES
    repeat,       \* the RepeatDict: key -> [iterator, length, repeat]
    iterators,    \* heap of tuple iterators: id -> [len, pos]
    items,        \* heap of RepeatItem objects: id -> [length, _iterator]
    ret,          \* outcome of the last RepeatDict / RepeatItem operation
    clause,       \* argument of the clause parsers
    parsed,       \* outcome of the last clause parser call
    call,         \* arguments of prepare_attributes
    prepared      \* outcome of prepare_attributes

vars == <<repeat, iterators, items, ret, clause, parsed, call, prepared>>

repeatVars == <<repeat, iterators, items, ret>>
clauseVars == <<clause, parsed>>
attrVars   == <<call, prepared>>

-----------------------------------------------------------------------------
(* Bounds of the model.                                                    *)

\* Length of the longest sequence registered with the RepeatDict.
MaxLen == 2
\* Length of the longest sequence a lone RepeatItem iterates over.
MaxItemLen == 4
\* Number of registrations (tuple iterators allocated) in one run.
MaxIters == 2

\* Loop-variable names.  "items" is also the name of a method of dict.
Keys == {"x", "items"}

\* Names that normal attribute lookup finds on a dict instance, so that
\* __getattr__ is never consulted for them.
DictAttributes == {"items", "keys", "values", "get", "copy", "update",
                   "pop", "popitem", "clear", "setdefault", "fromkeys"}

None == 0

-----------------------------------------------------------------------------
(* Tuple iterators (the cursor).                                           *)

\* iter(tuple): a fresh iterator positioned before the first element.
NewIterator(length) == [len |-> length, pos |-> 0]

\* iterator.__length_hint__(): the number of elements not yet consumed.
length_hint(it) == iterators[it].len - iterators[it].pos

-----------------------------------------------------------------------------
(* RepeatItem: every property is computed from length and the live cursor. *)

RepeatItem_init(iterator, length) == [length |-> length, _iterator |-> iterator]

\* A variant of index that forgets the "- 1".
RepeatItem_index_offbyone(self) ==
    items[self].length - length_hint(items[self]._iterator)

RepeatItem_index(self) ==
    LET remaining == length_hint(items[self]._iterator)
    IN  items[self].length - remaining - 1

RepeatItem_start(self) == RepeatItem_index(self) = 0

\* A variant of end that compares with length instead of length - 1.
RepeatItem_end_len(self) == RepeatItem_index(self) = items[self].length

RepeatItem_end(self) == RepeatItem_index(self) = items[self].length - 1

RepeatItem_number(self) == RepeatItem_index(self) + 1

RepeatItem_odd(self) ==
    IF RepeatItem_index(self) % 2 = 1 THEN <<"o","d","d">> ELSE <<>>

RepeatItem_even(self) ==
    IF RepeatItem_index(self) % 2 = 0 THEN <<"e","v","e","n">> ELSE <<>>

\* RepeatItem.next: never advances anything.
RepeatItem_next(self) == "NotImplementedError"

\* ord('a'), ord('A') and the default radix of _letter.
ord_a == 97
ord_A == 65
radix26 == 26

LowerCase == <<"a","b","c","d","e","f","g","h","i","j","k","l","m",
               "n","o","p","q","r","s","t","u","v","w","x","y","z">>
UpperCase == <<"A","B","C","D","E","F","G","H","I","J","K","L","M",
               "N","O","P","Q","R","S","T","U","V","W","X","Y","Z">>

\* chr(code) for the code points the labels use.
chr(code) ==
    IF code \in ord_a .. (ord_a + 25) THEN LowerCase[code - ord_a + 1]
    ELSE IF code \in ord_A .. (ord_A + 25) THEN UpperCase[code - ord_A + 1]
    ELSE "?"

\* A variant of the loop of _letter that appends each digit: the least
\* significant letter comes first.
RECURSIVE letter_loop_append(_, _, _, _)
letter_loop_append(index, s, base, radix) ==
    LET q   == index \div radix
        off == index % radix
        s2  == s \o <<chr(base + off)>>
    IN  IF q = 0 THEN s2 ELSE letter_loop_append(q, s2, base, radix)

\* The while loop of _letter: index, off = divmod(index, radix);
\* s = chr(base + off) + s; return s once index is 0.
RECURSIVE letter_loop(_, _, _, _)
letter_loop(index, s, base, radix) ==
    LET q   == index \div radix
        off == index % radix
        s2  == <<chr(base + off)>> \o s
    IN  IF q = 0 THEN s2 ELSE letter_loop(q, s2, base, radix)

\* A variant of _letter that also rejects index 0.
letter_of_offbyone(index, base, radix) ==
    IF index <= 0
    THEN [exc |-> "TypeError", str |-> <<>>]
    ELSE [exc |-> "", str |-> letter_loop(index, <<>>, base, radix)]

\* _letter on a given index: the exception raised ("" when none) and the label.
letter_of(index, base, radix) ==
    IF index < 0
    THEN [exc |-> "TypeError", str |-> <<>>]
    ELSE [exc |-> "", str |-> letter_loop(index, <<>>, base, radix)]

RepeatItem__letter(self, base, radix) ==
    letter_of(RepeatItem_index(self), base, radix)

RepeatItem_letter(self) == RepeatItem__letter(self, ord_a, radix26)

RepeatItem_Letter(self) == RepeatItem__letter(self, ord_A, radix26)

\* A variant of the table without the subtractive pairs.
rnvalues_additive == <<
    <<1000, <<"M">> >>, <<500, <<"D">> >>, <<100, <<"C">> >>,
    <<50, <<"L">> >>, <<10, <<"X">> >>, <<5, <<"V">> >>, <<1, <<"I">> >> >>

\* The default rnvalues table of Roman.
rnvalues == <<
    <<1000, <<"M">> >>, <<900, <<"C","M">> >>, <<500, <<"D">> >>,
    <<400, <<"C","D">> >>, <<100, <<"C">> >>, <<90, <<"X","C">> >>,
    <<50, <<"L">> >>, <<40, <<"X","L">> >>, <<10, <<"X">> >>,
    <<9, <<"I","X">> >>, <<5, <<"V">> >>, <<4, <<"I","V">> >>,
    <<1, <<"I">> >> >>

\* r * rct for a string r.
RECURSIVE str_times(_, _)
str_times(r, rct) == IF rct <= 0 THEN <<>> ELSE r \o str_times(r, rct - 1)

\* The for loop of Roman from table entry k on: rct, n = divmod(n, v);
\* s = s + r * rct.
RECURSIVE roman_loop(_, _, _)
roman_loop(n, s, k) ==
    IF k > Len(rnvalues) THEN s
    ELSE LET v == rnvalues[k][1]
             r == rnvalues[k][2]
         IN  roman_loop(n % v, s \o str_times(r, n \div v), k + 1)

Roman_of(index) == roman_loop(index + 1, <<>>, 1)

RepeatItem_Roman(self) == Roman_of(RepeatItem_index(self))

\* str.lower(), character by character.
lower_char(c) ==
    IF \E i \in 1..26 : UpperCase[i] = c
    THEN LowerCase[CHOOSE i \in 1..26 : UpperCase[i] = c]
    ELSE c

str_lower(s) == [i \in 1..Len(s) |-> lower_char(s[i])]

\* roman: self.Roman().lower()
RepeatItem_roman(self) == str_lower(RepeatItem_Roman(self))

-----------------------------------------------------------------------------
(* Text and the character classes of the regular expressions.              *)

\* The sentinel "\0" that split_parts puts in place of a doubled semicolon.
NUL == "NUL"

Whitespace == {" ", "\t", "\n", "\r", "\f"}
Digits == {"0","1","2","3","4","5","6","7","8","9"}
Letters == {LowerCase[i] : i \in 1..26} \cup {UpperCase[i] : i \in 1..26}
\* \w
WordChars == Letters \cup Digits \cup {"_"}
\* NAME = [a-zA-Z_][-a-zA-Z0-9_]*
NameStart == Letters \cup {"_"}
NameChars == Letters \cup Digits \cup {"-", "_"}

\* The text from position p to the end.
from(s, p) == SubSeq(s, p, Len(s))

\* How many characters in a row, starting at position p, belong to class C:
\* what a greedy C* consumes there.
RECURSIVE span(_, _, _)
span(s, p, C) ==
    IF p <= Len(s) /\ s[p] \in C THEN 1 + span(s, p + 1, C) ELSE 0

\* How many characters in a row, starting at p, do not belong to class C.
RECURSIVE span_not(_, _, _)
span_not(s, p, C) ==
    IF p <= Len(s) /\ s[p] \notin C THEN 1 + span_not(s, p + 1, C) ELSE 0

\* s[p:].startswith(w)
starts_with(s, p, w) ==
    /\ p + Len(w) - 1 <= Len(s)
    /\ SubSeq(s, p, p + Len(w) - 1) = w

\* str.strip() for whitespace
str_strip(s) ==
    LET a == span(s, 1, Whitespace) IN
    IF a = Len(s) THEN <<>>
    ELSE LET b == CHOOSE j \in 1..Len(s) :
                      /\ s[j] \notin Whitespace
                      /\ \A k \in (j + 1)..Len(s) : s[k] \in Whitespace
         IN  SubSeq(s, a + 1, b)

\* str.replace(old, new) for a one-character old
RECURSIVE replace_char(_, _, _)
replace_char(s, old, new) ==
    IF s = <<>> THEN <<>>
    ELSE <<IF s[1] = old THEN new ELSE s[1]>> \o replace_char(Tail(s), old, new)

\* str.replace(";;", "\0"): leftmost pairs first, never overlapping.
RECURSIVE replace_double(_)
replace_double(s) ==
    IF Len(s) < 2 THEN s
    ELSE IF s[1] = ";" /\ s[2] = ";"
         THEN <<NUL>> \o replace_double(from(s, 3))
         ELSE <<s[1]>> \o replace_double(Tail(s))

\* str.split(sep) for a one-character sep: always at least one piece.
RECURSIVE str_split(_, _)
str_split(s, sep) ==
    LET n == span_not(s, 1, {sep}) IN
    IF n = Len(s) THEN <<s>>
    ELSE <<SubSeq(s, 1, n)>> \o str_split(from(s, n + 2), sep)

-----------------------------------------------------------------------------
(* split_parts                                                             *)

\* The longest counts the two alternatives of ENTITY_RE accept:
\* \d{1,5} and \w{1,8}.
EntityMaxDigits == 5
EntityMaxWord == 8

\* ENTITY_RE tried at the start of s: &(#?)(x?)(\d{1,5}|\w{1,8});  The length
\* of the match, 0 when there is none.  No character of the pattern before
\* the final one is a semicolon, so a match ends at the first semicolon.
entity_match(s) ==
    IF s = <<>> \/ s[1] # "&" THEN 0
    ELSE LET n == span_not(s, 2, {";"})     \* the characters between & and ;
             body == SubSeq(s, 2, n + 1)
             ok == /\ n + 2 <= Len(s)          \* a semicolon follows
                   /\ \E h \in {0, 1}, x \in {0, 1} :
                         /\ h = 1 => starts_with(body, 1, <<"#">>)
                         /\ x = 1 => starts_with(body, h + 1, <<"x">>)
                         /\ LET rest == from(body, h + x + 1) IN
                            \/ /\ Len(rest) \in 1..EntityMaxDigits
                               /\ \A i \in 1..Len(rest) : rest[i] \in Digits
                            \/ /\ Len(rest) \in 1..EntityMaxWord
                               /\ \A i \in 1..Len(rest) : rest[i] \in WordChars
         IN  IF ok THEN n + 2 ELSE 0

\* ENTITY_RE.sub(r'\1;', arg): every match, left to right, gets one more
\* semicolon after it.
RECURSIVE entity_sub(_)
entity_sub(arg) ==
    IF arg = <<>> THEN <<>>
    ELSE LET m == entity_match(arg) IN
         IF m > 0
         THEN SubSeq(arg, 1, m) \o <<";">> \o entity_sub(from(arg, m + 1))
         ELSE <<arg[1]>> \o entity_sub(Tail(arg))

\* A variant of the last statement of split_parts that forgets strip().
drop_last_blank_emptyonly(parts) ==
    IF Len(parts) > 1 /\ parts[Len(parts)] = <<>>
    THEN SubSeq(parts, 1, Len(parts) - 1)
    ELSE parts

\* if len(parts) > 1 and not parts[-1].strip(): del parts[-1]
drop_last_blank(parts) ==
    IF Len(parts) > 1 /\ str_strip(parts[Len(parts)]) = <<>>
    THEN SubSeq(parts, 1, Len(parts) - 1)
    ELSE parts

\* split_parts without its first statement.
split_plain(arg) ==
    LET arg2  == replace_double(arg)
        parts == str_split(arg2, ";")
        back  == [i \in 1..Len(parts) |-> replace_char(parts[i], NUL, ";")]
    IN  drop_last_blank(back)

\* A variant of split_parts without the ENTITY_RE substitution.
split_parts_noentity(arg) == split_plain(arg)

split_parts(arg) == split_plain(entity_sub(arg))

-----------------------------------------------------------------------------
(* parse_attributes                                                        *)

\* ATTR_RE.match(part): \s*([^\s]+)\s+([^\s].*)\Z with re.S.  Each greedy
\* run has to be maximal for the next piece to match, so the groups are
\* determined: the name is the first run of non-blanks, the expression is
\* everything after the blanks that follow it.
ATTR_RE_match(part) ==
    LET lead  == span(part, 1, Whitespace)
        nlen  == span_not(part, lead + 1, Whitespace)
        gap   == span(part, lead + nlen + 1, Whitespace)
        estart == lead + nlen + gap + 1
    IN  IF nlen >= 1 /\ gap >= 1 /\ estart <= Len(part)
        THEN [matched |-> TRUE,
              name |-> SubSeq(part, lead + 1, lead + nlen),
              expr |-> from(part, estart)]
        ELSE [matched |-> FALSE, name |-> <<>>, expr |-> <<>>]

\* name in attrs, for the dict kept as its items in insertion order
has_key(attrs, name) == \E i \in 1..Len(attrs) : attrs[i][1] = name

\* The outcome of a parser: the exception raised ("" when none) with its
\* message, whether None was returned, and the value returned.
Outcome(exc, msg, none, value) ==
    [exc |-> exc, msg |-> msg, none |-> none, value |-> value]

\* The for loop of parse_attributes from part k on; attrs is the dict so far.
RECURSIVE attributes_loop(_, _, _)
attributes_loop(parts, k, attrs) ==
    IF k > Len(parts) THEN Outcome("", "", FALSE, attrs)
    ELSE LET m == ATTR_RE_match(parts[k]) IN
         IF ~m.matched
         THEN Outcome("LanguageError", "Bad syntax in attributes.", FALSE, <<>>)
         ELSE IF has_key(attrs, m.name)
         THEN Outcome("LanguageError",
                      "Duplicate attribute name in attributes.", FALSE, <<>>)
         ELSE attributes_loop(parts, k + 1, Append(attrs, <<m.name, m.expr>>))

\* A variant of parse_attributes whose loop overwrites a repeated name
\* instead of raising.
RECURSIVE attributes_loop_overwrite(_, _, _)
attributes_loop_overwrite(parts, k, attrs) ==
    IF k > Len(parts) THEN Outcome("", "", FALSE, attrs)
    ELSE LET m == ATTR_RE_match(parts[k]) IN
         IF ~m.matched
         THEN Outcome("LanguageError", "Bad syntax in attributes.", FALSE, <<>>)
         ELSE attributes_loop_overwrite(parts, k + 1,
                  IF has_key(attrs, m.name)
                  THEN [i \in 1..Len(attrs) |->
                           IF attrs[i][1] = m.name THEN <<m.name, m.expr>>
                           ELSE attrs[i]]
                  ELSE Append(attrs, <<m.name, m.expr>>))

parse_attributes_overwrite(c) == attributes_loop_overwrite(split_parts(c), 1, <<>>)

parse_attributes(c) == attributes_loop(split_parts(c), 1, <<>>)

-----------------------------------------------------------------------------
(* parse_substitution                                                      *)

kw_text      == <<"t","e","x","t">>
kw_structure == <<"s","t","r","u","c","t","u","r","e">>
kw_global    == <<"g","l","o","b","a","l">>
kw_local     == <<"l","o","c","a","l">>

\* A variant of the SUBST_RE match that takes the keyword whether or not
\* whitespace follows it.
SUBST_RE_match_nogap(c) ==
    LET p == span(c, 1, Whitespace) + 1
        kw == IF starts_with(c, p, kw_text) THEN kw_text
              ELSE IF starts_with(c, p, kw_structure) THEN kw_structure
              ELSE <<>>
        gap == span(c, p + Len(kw), Whitespace)
    IN  [matched |-> TRUE, key |-> kw, expression |-> from(c, p + Len(kw) + gap)]

\* SUBST_RE.match(clause): \s*(?:(text|structure)\s+)?(.*)\Z with re.S.  The
\* optional group is taken when it can be; (.*) accepts whatever follows, so
\* the pattern always matches.
SUBST_RE_match(c) ==
    LET p == span(c, 1, Whitespace) + 1
        kw == IF starts_with(c, p, kw_text) THEN kw_text
              ELSE IF starts_with(c, p, kw_structure) THEN kw_structure
              ELSE <<>>
        gap == span(c, p + Len(kw), Whitespace)
    IN  IF kw # <<>> /\ gap >= 1
        THEN [matched |-> TRUE, key |-> kw, expression |-> from(c, p + Len(kw) + gap)]
        ELSE [matched |-> TRUE, key |-> <<>>, expression |-> from(c, p)]

parse_substitution(c) ==
    LET m == SUBST_RE_match(c) IN
    IF ~m.matched
    THEN Outcome("LanguageError", "Invalid content substitution syntax.", FALSE, <<>>)
    ELSE Outcome("", "", FALSE,
                 <<IF m.key = <<>> THEN kw_text ELSE m.key, m.expression>>)

-----------------------------------------------------------------------------
(* parse_defines                                                           *)

\* NAME at position p: the length of the match, 0 when there is none.
NAME_match(s, p) ==
    IF p <= Len(s) /\ s[p] \in NameStart
    THEN 1 + span(s, p + 1, NameChars)
    ELSE 0

\* (?:,\s*NAME)*\) at position p: the position after the closing
\* parenthesis, 0 when the list is malformed.
RECURSIVE name_list_rest(_, _)
name_list_rest(s, p) ==
    IF p > Len(s) THEN 0
    ELSE IF s[p] = ")" THEN p + 1
    ELSE IF s[p] = ","
         THEN LET q == p + 1 + span(s, p + 1, Whitespace)
                  n == NAME_match(s, q)
              IN  IF n = 0 THEN 0 ELSE name_list_rest(s, q + n)
         ELSE 0

\* (NAME|\(NAME(?:,\s*NAME)*\)) at position p: the position after group 2,
\* 0 when it does not match.
names_match(s, p) ==
    IF p <= Len(s) /\ s[p] = "("
    THEN LET n == NAME_match(s, p + 1) IN
         IF n = 0 THEN 0 ELSE name_list_rest(s, p + 1 + n)
    ELSE LET n == NAME_match(s, p) IN
         IF n = 0 THEN 0 ELSE p + n

\* (NAME|\(...\))\s+(.*)\Z at position p, for a given group 1.
define_tail(s, p, context) ==
    LET q   == names_match(s, p)
        gap == IF q = 0 THEN 0 ELSE span(s, q, Whitespace)
    IN  IF q > 0 /\ gap >= 1
        THEN [matched |-> TRUE, context |-> context,
              name |-> SubSeq(s, p, q - 1), expr |-> from(s, q + gap)]
        ELSE [matched |-> FALSE, context |-> <<>>, name |-> <<>>, expr |-> <<>>]

\* DEFINE_RE.match(part):
\*   (?s)\s*(?:(global|local)\s+)?(NAME|\(NAME(?:,\s*NAME)*\))\s+(.*)\Z
\* The scope keyword is tried first; when the rest then fails to match, the
\* matcher backtracks and reads the same word as a NAME.
DEFINE_RE_match(part) ==
    LET p  == span(part, 1, Whitespace) + 1
        kw == IF starts_with(part, p, kw_global) THEN kw_global
              ELSE IF starts_with(part, p, kw_local) THEN kw_local
              ELSE <<>>
        gap == span(part, p + Len(kw), Whitespace)
        withKw == define_tail(part, p + Len(kw) + gap, kw)
    IN  IF kw # <<>> /\ gap >= 1 /\ withKw.matched
        THEN withKw
        ELSE define_tail(part, p, <<>>)

\* name.strip('()')
strip_parens(name) ==
    LET a == span(name, 1, {"(", ")"}) IN
    IF a = Len(name) THEN <<>>
    ELSE LET b == CHOOSE j \in 1..Len(name) :
                      /\ name[j] \notin {"(", ")"}
                      /\ \A k \in (j + 1)..Len(name) : name[k] \in {"(", ")"}
         IN  SubSeq(name, a + 1, b)

\* A variant of the names of one definition that does not strip the names of
\* a parenthesized list.
define_names_nostrip(name) ==
    IF starts_with(name, 1, <<"(">>)
    THEN str_split(strip_parens(name), ",")
    ELSE <<name>>

\* The names of one definition: [n.strip() for n in name.strip('()').split(',')]
\* for the parenthesized form, (name,) for the bare one.
define_names(name) ==
    IF starts_with(name, 1, <<"(">>)
    THEN LET ns == str_split(strip_parens(name), ",")
         IN  [i \in 1..Len(ns) |-> str_strip(ns[i])]
    ELSE <<name>>

\* The for loop of parse_defines from part k on.
RECURSIVE defines_loop(_, _, _)
defines_loop(parts, k, defines) ==
    IF k > Len(parts) THEN Outcome("", "", FALSE, defines)
    ELSE LET m == DEFINE_RE_match(parts[k]) IN
         IF ~m.matched
         THEN Outcome("", "", TRUE, <<>>)
         ELSE LET context == IF m.context = <<>> THEN kw_local ELSE m.context
              IN  defines_loop(parts, k + 1,
                      Append(defines, <<context, define_names(m.name), m.expr>>))

\* The names a list of definitions defines, in order, each as often as the
\* list holds it.
RECURSIVE names_of(_)
names_of(defines) ==
    IF defines = <<>> THEN <<>>
    ELSE Head(defines)[2] \o names_of(Tail(defines))

\* A variant of parse_defines that refuses a clause defining a name twice, as
\* parse_attributes refuses a repeated attribute name.
parse_defines_unique(c) ==
    LET out == defines_loop(split_parts(c), 1, <<>>)
        ns  == names_of(out.value)
    IN  IF \E i, j \in 1..Len(ns) : i # j /\ ns[i] = ns[j]
        THEN Outcome("LanguageError", "Duplicate define name in defines.", FALSE, <<>>)
        ELSE out

\* A variant of parse_defines whose loop stops at a part that does not match
\* and returns the definitions read so far.
RECURSIVE defines_loop_partial(_, _, _)
defines_loop_partial(parts, k, defines) ==
    IF k > Len(parts) THEN Outcome("", "", FALSE, defines)
    ELSE LET m == DEFINE_RE_match(parts[k]) IN
         IF ~m.matched
         THEN Outcome("", "", FALSE, defines)
         ELSE LET context == IF m.context = <<>> THEN kw_local ELSE m.context
              IN  defines_loop_partial(parts, k + 1,
                      Append(defines, <<context, define_names(m.name), m.expr>>))

parse_defines_partial(c) == defines_loop_partial(split_parts(c), 1, <<>>)

parse_defines(c) == defines_loop(split_parts(c), 1, <<>>)

-----------------------------------------------------------------------------
(* prepare_attributes                                                      *)

\* The namespace of xmlns declarations (namespaces.XMLNS_NS), a namespace the
\* compiler drops, and one it keeps.
XMLNS_NS == "http://www.w3.org/2000/xmlns/"
TAL_NS   == "http://xml.zope.org/namespaces/tal"
XHTML_NS == "http://www.w3.org/1999/xhtml"

\* None in a slot that otherwise holds a string.
NoneStr == "<None>"

\* A variant of OrderedDict.__setitem__ that moves a key it already holds to
\* the end, as deleting and inserting the key again would.
od_set_reinsert(od, name, value) ==
    Append(SelectSeq(od, LAMBDA e : e[1] # name), <<name, value>>)

\* OrderedDict.__setitem__ on the dict kept as its items in insertion order:
\* a key already present keeps its place.
od_set(od, name, value) ==
    IF has_key(od, name)
    THEN [i \in 1..Len(od) |-> IF od[i][1] = name THEN <<name, value>> ELSE od[i]]
    ELSE Append(od, <<name, value>>)

od_get(od, name) == od[CHOOSE i \in 1..Len(od) : od[i][1] = name][2]

\* A variant of the drop set that forgets the xmlns declarations.
drop_names_nsonly(attrs, ns_attributes, drop_ns) ==
    LET n == IF Len(attrs) < Len(ns_attributes) THEN Len(attrs)
             ELSE Len(ns_attributes)
    IN  {attrs[i].name : i \in {j \in 1..n : ns_attributes[j][1] \in drop_ns}}

\* The set comprehension that opens prepare_attributes; zip stops at the
\* shorter of the two sequences.
drop_names(attrs, ns_attributes, drop_ns) ==
    LET n == IF Len(attrs) < Len(ns_attributes) THEN Len(attrs)
             ELSE Len(ns_attributes)
    IN  {attrs[i].name : i \in
            {j \in 1..n :
                \/ ns_attributes[j][1] \in drop_ns
                \/ /\ ns_attributes[j][1] = XMLNS_NS
                   /\ attrs[j].value \in drop_ns}}

\* The first for loop, from attribute k on.
RECURSIVE static_loop(_, _, _, _)
static_loop(attrs, k, drop, attributes) ==
    IF k > Len(attrs) THEN attributes
    ELSE LET attribute == attrs[k]
             name == attribute.name
         IN  IF name \in drop
             THEN static_loop(attrs, k + 1, drop, attributes)
             ELSE static_loop(attrs, k + 1, drop,
                      od_set(attributes, name,
                             [text |-> attribute.value, quote |-> attribute.quote,
                              space |-> attribute.space, eq |-> attribute.eq,
                              expr |-> NoneStr]))

\* The second for loop, over dyn_attributes.items() from item k on.
RECURSIVE dynamic_loop(_, _, _)
dynamic_loop(dyn, k, attributes) ==
    IF k > Len(dyn) THEN attributes
    ELSE LET name == dyn[k][1]
             expr == dyn[k][2]
             old  == IF has_key(attributes, name)
                     THEN od_get(attributes, name)
                     ELSE [text |-> NoneStr, quote |-> "\"", space |-> " ",
                           eq |-> "=", expr |-> NoneStr]
         IN  dynamic_loop(dyn, k + 1,
                 od_set(attributes, name, [old EXCEPT !.expr = expr]))

prepare_attributes(attrs, dyn_attributes, ns_attributes, drop_ns) ==
    LET drop == drop_names(attrs, ns_attributes, drop_ns)
        attributes == static_loop(attrs, 1, drop, <<>>)
    IN  dynamic_loop(dyn_attributes, 1, attributes)

-----------------------------------------------------------------------------
(* RepeatDict.                                                             *)

\* What the template passes to __call__: a sequence of a known length, None,
\* or a value that is neither (an integer).
Iterables ==
    {[type |-> "tuple", len |-> n] : n \in 0..MaxLen}
        \cup {[type |-> "NoneType", len |-> 0], [type |-> "int", len |-> 0]}

\* The idle values of the variables a specification does not use.
ClauseIdle == clause = <<>> /\ parsed = <<>>
AttrIdle == call = <<>> /\ prepared = <<>>

\* The outcome record of an operation; exc = "" when it returned.  arg is
\* the type of the iterable a registration was given.
NoRet == [op |-> "", key |-> "", arg |-> "", exc |-> "", kind |-> "",
          obj |-> None, length |-> 0, int |-> 0, str |-> <<>>, bool |-> FALSE]

\* dict.__setitem__
setitem(d, key, value) ==
    [k \in (DOMAIN d) \cup {key} |-> IF k = key THEN value ELSE d[k]]

\* A variant of the coercion without the fallback for None.
coerce_strict(iterable) ==
    IF iterable.type = "tuple" THEN [exc |-> "", len |-> iterable.len]
    ELSE [exc |-> "TypeError", len |-> 0]

\* tuple(iterable), with the fallback for None: the exception raised and the
\* length of the coerced tuple.
coerce(iterable) ==
    IF iterable.type = "tuple" THEN [exc |-> "", len |-> iterable.len]
    ELSE IF iterable.type = "NoneType" THEN [exc |-> "", len |-> 0]
    ELSE [exc |-> "TypeError", len |-> 0]

\* A variant of __call__ that keeps the RepeatItem cached for the key.
Call_keepview(key, iterable) ==
    LET c == coerce(iterable) IN
    IF c.exc # ""
    THEN /\ ret' = [NoRet EXCEPT !.op = "__call__", !.key = key,
                          !.arg = iterable.type, !.exc = c.exc]
         /\ UNCHANGED <<repeat, iterators, items, clauseVars, attrVars>>
    ELSE /\ Len(iterators) < MaxIters
         /\ LET length   == c.len
                iterator == Len(iterators) + 1
                view     == IF key \in DOMAIN repeat THEN repeat[key].repeat
                            ELSE None
            IN  /\ iterators' = Append(iterators, NewIterator(length))
                /\ repeat' = setitem(repeat, key,
                        [iterator |-> iterator, length |-> length, repeat |-> view])
                /\ ret' = [NoRet EXCEPT !.op = "__call__", !.key = key,
                              !.arg = iterable.type,
                              !.kind = "iterator", !.obj = iterator,
                              !.length = length]
         /\ UNCHANGED <<items, clauseVars, attrVars>>

\* A variant of __call__ that, for a name already registered, rewinds the
\* cursor of the entry over the new sequence instead of making a new cursor.
Call_rewind(key, iterable) ==
    LET c == coerce(iterable) IN
    IF c.exc # ""
    THEN /\ ret' = [NoRet EXCEPT !.op = "__call__", !.key = key,
                          !.arg = iterable.type, !.exc = c.exc]
         /\ UNCHANGED <<repeat, iterators, items, clauseVars, attrVars>>
    ELSE /\ Len(iterators) < MaxIters
         /\ LET length   == c.len
                iterator == IF key \in DOMAIN repeat THEN repeat[key].iterator
                            ELSE Len(iterators) + 1
            IN  /\ iterators' =
                       IF key \in DOMAIN repeat
                       THEN [iterators EXCEPT ![iterator] = NewIterator(length)]
                       ELSE Append(iterators, NewIterator(length))
                /\ repeat' = setitem(repeat, key,
                        [iterator |-> iterator, length |-> length, repeat |-> None])
                /\ ret' = [NoRet EXCEPT !.op = "__call__", !.key = key,
                              !.arg = iterable.type,
                              !.kind = "iterator", !.obj = iterator,
                              !.length = length]
         /\ UNCHANGED <<items, clauseVars, attrVars>>

\* RepeatDict.__call__(key, iterable)
Call(key, iterable) ==
    LET c == coerce(iterable) IN
    IF c.exc # ""
    THEN /\ ret' = [NoRet EXCEPT !.op = "__call__", !.key = key,
                          !.arg = iterable.type, !.exc = c.exc]
         /\ UNCHANGED <<repeat, iterators, items, clauseVars, attrVars>>
    ELSE /\ Len(iterators) < MaxIters
         /\ LET length   == c.len
                iterator == Len(iterators) + 1
            IN  /\ iterators' = Append(iterators, NewIterator(length))
                /\ repeat' = setitem(repeat, key,
                        [iterator |-> iterator, length |-> length, repeat |-> None])
                /\ ret' = [NoRet EXCEPT !.op = "__call__", !.key = key,
                              !.arg = iterable.type,
                              !.kind = "iterator", !.obj = iterator,
                              !.length = length]
         /\ UNCHANGED <<items, clauseVars, attrVars>>

\* A variant of __getitem__ that builds a RepeatItem on every call.
getitem_nocache(key) ==
    IF key \notin DOMAIN repeat
    THEN [exc |-> "KeyError", repeat |-> repeat, items |-> items, value |-> None]
    ELSE LET e == repeat[key]
             new == Len(items) + 1
         IN  [exc |-> "",
              repeat |-> setitem(repeat, key, [e EXCEPT !.repeat = new]),
              items |-> Append(items, RepeatItem_init(e.iterator, e.length)),
              value |-> new]

\* The effect of RepeatDict.__getitem__(key): the exception raised, the
\* dictionary and the RepeatItem heap afterwards, and the value returned.
getitem(key) ==
    IF key \notin DOMAIN repeat
    THEN [exc |-> "KeyError", repeat |-> repeat, items |-> items, value |-> None]
    ELSE LET e == repeat[key] IN
         IF e.repeat = None
         THEN LET new == Len(items) + 1 IN
              [exc |-> "",
               repeat |-> setitem(repeat, key, [e EXCEPT !.repeat = new]),
               items |-> Append(items, RepeatItem_init(e.iterator, e.length)),
               value |-> new]
         ELSE [exc |-> "", repeat |-> repeat, items |-> items, value |-> e.repeat]

\* RepeatDict.__getitem__(key)
GetItem(key) ==
    LET g == getitem(key) IN
    /\ repeat' = g.repeat
    /\ items' = g.items
    /\ ret' = [NoRet EXCEPT !.op = "__getitem__", !.key = key, !.exc = g.exc,
                  !.kind = IF g.exc = "" THEN "RepeatItem" ELSE "",
                  !.obj = g.value]
    /\ UNCHANGED <<iterators, clauseVars, attrVars>>

\* Attribute access repeat.<key>: __getattr__ is __getitem__, and Python asks
\* __getattr__ only for a name that normal lookup does not find on a dict.
GetAttr(key) ==
    IF key \in DictAttributes
    THEN /\ ret' = [NoRet EXCEPT !.op = "__getattr__", !.key = key,
                       !.kind = "method"]
         /\ UNCHANGED <<repeat, iterators, items, clauseVars, attrVars>>
    ELSE LET g == getitem(key) IN
         /\ repeat' = g.repeat
         /\ items' = g.items
         /\ ret' = [NoRet EXCEPT !.op = "__getattr__", !.key = key,
                       !.exc = g.exc,
                       !.kind = IF g.exc = "" THEN "RepeatItem" ELSE "",
                       !.obj = g.value]
         /\ UNCHANGED <<iterators, clauseVars, attrVars>>

\* A variant of get without the membership test: self[key] for every key.
Get_nocheck(key) ==
    LET g == getitem(key) IN
    /\ repeat' = g.repeat
    /\ items' = g.items
    /\ ret' = [NoRet EXCEPT !.op = "get", !.key = key, !.exc = g.exc,
                  !.kind = IF g.exc = "" THEN "RepeatItem" ELSE "",
                  !.obj = g.value]
    /\ UNCHANGED <<iterators, clauseVars, attrVars>>

\* RepeatDict.get(key, default)
Get(key) ==
    IF key \notin DOMAIN repeat
    THEN /\ ret' = [NoRet EXCEPT !.op = "get", !.key = key, !.kind = "default"]
         /\ UNCHANGED <<repeat, iterators, items, clauseVars, attrVars>>
    ELSE LET g == getitem(key) IN
         /\ repeat' = g.repeat
         /\ items' = g.items
         /\ ret' = [NoRet EXCEPT !.op = "get", !.key = key, !.exc = g.exc,
                       !.kind = IF g.exc = "" THEN "RepeatItem" ELSE "",
                       !.obj = g.value]
         /\ UNCHANGED <<iterators, clauseVars, attrVars>>

\* next(iterator), called by the loop that owns the cursor.
Advance(it) ==
    /\ it \in 1..Len(iterators)
    /\ IF iterators[it].pos < iterators[it].len
       THEN /\ iterators' = [iterators EXCEPT ![it].pos = @ + 1]
            /\ ret' = [NoRet EXCEPT !.op = "next(iterator)", !.obj = it,
                          !.kind = "element", !.int = iterators[it].pos]
       ELSE /\ iterators' = iterators
            /\ ret' = [NoRet EXCEPT !.op = "next(iterator)", !.obj = it,
                          !.exc = "StopIteration"]
    /\ UNCHANGED <<repeat, items, clauseVars, attrVars>>

\* Reads of a RepeatItem the template holds.
ReadInt(self, name, value) ==
    /\ ret' = [NoRet EXCEPT !.op = name, !.obj = self, !.kind = "int",
                  !.int = value]
    /\ UNCHANGED <<repeat, iterators, items, clauseVars, attrVars>>

ReadBool(self, name, value) ==
    /\ ret' = [NoRet EXCEPT !.op = name, !.obj = self, !.kind = "bool",
                  !.bool = value]
    /\ UNCHANGED <<repeat, iterators, items, clauseVars, attrVars>>

ReadStr(self, name, exc, value) ==
    /\ ret' = [NoRet EXCEPT !.op = name, !.obj = self, !.exc = exc,
                  !.kind = IF exc = "" THEN "str" ELSE "", !.str = value]
    /\ UNCHANGED <<repeat, iterators, items, clauseVars, attrVars>>

Index(self)  == ReadInt(self, "index", RepeatItem_index(self))
Length(self) == ReadInt(self, "length", items[self].length)
Number(self) == ReadInt(self, "number", RepeatItem_number(self))
Start(self)  == ReadBool(self, "start", RepeatItem_start(self))
End(self)    == ReadBool(self, "end", RepeatItem_end(self))
Odd(self)    == ReadStr(self, "odd", "", RepeatItem_odd(self))
Even(self)   == ReadStr(self, "even", "", RepeatItem_even(self))
ReadLetter(self) ==
    ReadStr(self, "letter", RepeatItem_letter(self).exc, RepeatItem_letter(self).str)
ReadLetterUpper(self) ==
    ReadStr(self, "Letter", RepeatItem_Letter(self).exc, RepeatItem_Letter(self).str)
ReadRoman(self) == ReadStr(self, "Roman", "", RepeatItem_Roman(self))
ReadRomanLower(self) == ReadStr(self, "roman", "", RepeatItem_roman(self))

\* A variant of next that does what the next of an iterator does: it takes
\* the next element off the cursor.
CallNext_advances(self) ==
    LET it == items[self]._iterator IN
    /\ IF iterators[it].pos < iterators[it].len
       THEN /\ iterators' = [iterators EXCEPT ![it].pos = @ + 1]
            /\ ret' = [NoRet EXCEPT !.op = "next", !.obj = self,
                          !.kind = "element", !.int = iterators[it].pos]
       ELSE /\ iterators' = iterators
            /\ ret' = [NoRet EXCEPT !.op = "next", !.obj = self,
                          !.exc = "StopIteration"]
    /\ UNCHANGED <<repeat, items, clauseVars, attrVars>>

\* item.next()
CallNext(self) == ReadStr(self, "next", RepeatItem_next(self), <<>>)

\* iter(item): __iter__ hands out the cursor itself.
Iter(self) ==
    /\ ret' = [NoRet EXCEPT !.op = "__iter__", !.kind = "iterator",
                  !.obj = items[self]._iterator]
    /\ UNCHANGED <<repeat, iterators, items, clauseVars, attrVars>>

Init ==
    /\ repeat = <<>>
    /\ iterators = <<>>
    /\ items = <<>>
    /\ ret = NoRet
    /\ ClauseIdle
    /\ AttrIdle

\* A render: registrations, lookups, the loops advancing their cursors, and
\* the template reading the position of any RepeatItem it holds.
Next ==
    \/ \E key \in Keys, iterable \in Iterables : Call(key, iterable)
    \/ \E key \in Keys : GetItem(key)
    \/ \E key \in Keys : GetAttr(key)
    \/ \E key \in Keys : Get(key)
    \/ \E it \in 1..Len(iterators) : Advance(it)
    \/ \E self \in 1..Len(items) : Index(self)
    \/ \E self \in 1..Len(items) : Number(self)

Spec == Init /\ [][Next]_vars

\* One RepeatItem over one cursor, built as the doctests of the class build
\* it: RepeatItem(iter(t), len(t)) for a tuple t of up to MaxItemLen elements.
ItemInit ==
    /\ \E n \in 0..MaxItemLen :
          /\ iterators = <<NewIterator(n)>>
          /\ items = <<RepeatItem_init(1, n)>>
    /\ repeat = <<>>
    /\ ret = NoRet
    /\ ClauseIdle
    /\ AttrIdle

ItemNext ==
    \/ Advance(1)
    \/ Index(1)
    \/ Length(1)
    \/ Number(1)
    \/ Start(1)
    \/ End(1)
    \/ Odd(1)
    \/ Even(1)
    \/ ReadLetter(1)
    \/ ReadLetterUpper(1)
    \/ ReadRoman(1)
    \/ ReadRomanLower(1)
    \/ CallNext(1)
    \/ Iter(1)

SpecItem == ItemInit /\ [][ItemNext]_vars

\* The length of the one long loop whose labels are read.
MaxLabelLen == 2000

\* One RepeatItem over the cursor of a loop of MaxLabelLen elements; the loop
\* advances the cursor and the template reads the label of each position.
LabelInit ==
    /\ iterators = <<NewIterator(MaxLabelLen)>>
    /\ items = <<RepeatItem_init(1, MaxLabelLen)>>
    /\ repeat = <<>>
    /\ ret = NoRet
    /\ ClauseIdle
    /\ AttrIdle

LabelNext ==
    \/ Advance(1)
    \/ ReadLetter(1)
    \/ ReadLetterUpper(1)
    \/ ReadRoman(1)
    \/ ReadRomanLower(1)

SpecLabels == LabelInit /\ [][LabelNext]_vars

-----------------------------------------------------------------------------
(* The clause parsers, each applied to a clause.                           *)

\* Longest clause drawn character by character from Alphabet.
MaxClauseLen == 4
\* Most parts of PartPool joined by semicolons into one clause.
MaxParts == 2

Alphabet == {"a", "b", " ", ";", "&"}

RECURSIVE Strings(_)
Strings(n) ==
    IF n = 0 THEN {<<>>}
    ELSE LET S == Strings(n - 1) IN
         S \cup {Append(t, ch) : t \in {u \in S : Len(u) = n - 1}, ch \in Alphabet}

PartPool ==
    {<<"a"," ","b">>,
     <<"b"," ","a">>,
     <<"a">>,
     <<>>,
     <<" ">>,
     <<"(","a",",","b",")"," ","c">>,
     <<"(","a",","," ","b",")"," ","c">>,
     <<"l","o","c","a","l"," ","a"," ","b">>,
     <<"g","l","o","b","a","l"," ","b"," ","a">>,
     <<"l","o","c","a","l"," ","a">>,
     <<"a"," ","&","b",";"," ","c">>,
     <<"a"," ","b",";",";","c">>,
     <<"1","a"," ","b">>,
     <<"(","a",",","a",")"," ","b">>}

RECURSIVE Joined(_)
Joined(n) ==
    IF n <= 1 THEN PartPool
    ELSE LET J == Joined(n - 1) IN
         J \cup {j \o <<";">> \o q : j \in J, q \in PartPool}

\* Clauses quoted in the documentation of the parsers, and clauses around
\* the keywords of the grammars.
Examples ==
    {<<"c","l","a","s","s"," ","f","o","o",";","i","d"," ","b","a","r">>,
     <<"c","l","a","s","s"," ","f","o","o",";","c","l","a","s","s"," ","b","a","r">>,
     <<"x"," ","&","a","m","p",";"," ","y",";"," ","z">>,
     <<"x"," ","&","#","1","6","0",";"," ","y",";"," ","z">>,
     <<"l","o","c","a","l"," ","x"," ","p","a","t","h","1",";"," ","g","l","o","b","a","l"," ","(","a",",","b",")"," ","p","a","t","h","2">>,
     <<"s","t","r","u","c","t","u","r","e"," ","m","y","/","e","x","p","r">>,
     <<"p","l","a","i","n","/","e","x","p","r">>,
     <<"a"," ","&","a","b","c","d","e","f","g","h","i",";"," ","b">>,
     <<"x"," ","m","y","/","e","x","p","r",";"," ","y"," ","1">>,
     <<"t","e","x","t">>,
     <<"t","e","x","t"," ","x">>,
     <<"t","e","x","t","u","a","l"," ","x">>,
     <<" ","t","e","x","t"," "," ","x"," ","y">>,
     <<"s","t","r","u","c","t","u","r","e">>,
     <<"s","t","r","u","c","t","u","r","e"," ">>,
     <<"g","l","o","b","a","l"," ","a">>}

Clauses == Strings(MaxClauseLen) \cup Joined(MaxParts) \cup Examples

NoOutcome == [op |-> "", out |-> Outcome("", "", FALSE, <<>>)]

SplitParts ==
    /\ parsed' = [op |-> "split_parts",
                  out |-> Outcome("", "", FALSE, split_parts(clause))]
    /\ UNCHANGED <<clause, repeatVars, attrVars>>

ParseAttributes ==
    /\ parsed' = [op |-> "parse_attributes", out |-> parse_attributes(clause)]
    /\ UNCHANGED <<clause, repeatVars, attrVars>>

ParseSubstitution ==
    /\ parsed' = [op |-> "parse_substitution", out |-> parse_substitution(clause)]
    /\ UNCHANGED <<clause, repeatVars, attrVars>>

ParseDefines ==
    /\ parsed' = [op |-> "parse_defines", out |-> parse_defines(clause)]
    /\ UNCHANGED <<clause, repeatVars, attrVars>>

RepeatIdle == repeat = <<>> /\ iterators = <<>> /\ items = <<>> /\ ret = NoRet

ClauseInit ==
    /\ clause \in Clauses
    /\ parsed = NoOutcome
    /\ RepeatIdle
    /\ AttrIdle

ClauseNext ==
    \/ SplitParts
    \/ ParseAttributes
    \/ ParseSubstitution
    \/ ParseDefines

SpecClause == ClauseInit /\ [][ClauseNext]_vars

-----------------------------------------------------------------------------
(* prepare_attributes applied to the attributes of one element.            *)

\* Most static attributes, and most dynamic attributes, of the element.
MaxAttrs == 2

StaticNames == {"class", "t:x"}
DynNames == {"class", "t:x", "id"}

\* What the tokenizer can report for one attribute, and its namespace.
StaticAttrs ==
    {[name |-> n, value |-> nv[2], quote |-> q, space |-> "  ", eq |-> " = ",
      ns |-> nv[1]] :
        n \in StaticNames, q \in {"'", "\""},
        nv \in {<<XHTML_NS, "v">>, <<TAL_NS, "v">>,
                <<XMLNS_NS, "v">>, <<XMLNS_NS, TAL_NS>>}}

RECURSIVE SeqsUpTo(_, _)
SeqsUpTo(S, n) ==
    IF n = 0 THEN {<<>>}
    ELSE LET T == SeqsUpTo(S, n - 1) IN
         T \cup {Append(t, x) : t \in {u \in T : Len(u) = n - 1}, x \in S}

\* The items of a mapping: no key twice.
DistinctKeys(seq) ==
    \A i, j \in 1..Len(seq) : i # j => seq[i][1] # seq[j][1]

DynItems == {<<n, "expr:" \o n>> : n \in DynNames}

Calls ==
    {[attrs |-> [i \in 1..Len(a) |->
                    [name |-> a[i].name, value |-> a[i].value,
                     quote |-> a[i].quote, space |-> a[i].space, eq |-> a[i].eq]],
      ns_attributes |-> [i \in 1..Len(a) |-> <<a[i].ns, a[i].value>>],
      dyn_attributes |-> d,
      drop_ns |-> ns] :
        a \in SeqsUpTo(StaticAttrs, MaxAttrs),
        d \in {e \in SeqsUpTo(DynItems, MaxAttrs) : DistinctKeys(e)},
        ns \in {{}, {TAL_NS}}}

PrepareAttributes ==
    /\ prepared = <<>>
    /\ prepared' = <<"returned", prepare_attributes(call.attrs, call.dyn_attributes,
                                      call.ns_attributes, call.drop_ns)>>
    /\ UNCHANGED <<call, repeatVars, clauseVars>>

AttrInit ==
    /\ call \in Calls
    /\ prepared = <<>>
    /\ RepeatIdle
    /\ ClauseIdle

AttrNext == PrepareAttributes

SpecAttrs == AttrInit /\ [][AttrNext]_vars

-----------------------------------------------------------------------------
(* Properties of prepare_attributes.                                       *)

\* The names of the static attributes the drop set covers: the namespace is
\* in drop_ns, or it is the xmlns namespace and the value is in drop_ns.
DroppedNames ==
    {call.attrs[i].name : i \in
        {j \in 1..Len(call.attrs) :
            \/ call.ns_attributes[j][1] \in call.drop_ns
            \/ /\ call.ns_attributes[j][1] = XMLNS_NS
               /\ call.attrs[j].value \in call.drop_ns}}

DynKeys == {call.dyn_attributes[i][1] : i \in 1..Len(call.dyn_attributes)}

DynExpr(name) ==
    call.dyn_attributes[CHOOSE i \in 1..Len(call.dyn_attributes) :
                            call.dyn_attributes[i][1] = name][2]

\* C1 as stated: the mapping prepare_attributes returns has no entry under
\* the name of a dropped attribute, whether or not dyn_attributes names it.
C1_DroppedHasNoEntry ==
    prepared # <<>> =>
        \A name \in DroppedNames : ~has_key(prepared[2], name)

\* C1 amended: a dropped attribute loses its static entry.  Its name has no
\* entry in the returned mapping unless dyn_attributes supplies an expression
\* for it, and then the entry is the one of a dynamic-only attribute: no
\* static text, the default quote, space and eq, and that expression.
C1_DroppedLosesStaticEntry ==
    prepared # <<>> =>
        \A name \in DroppedNames :
            IF name \in DynKeys
            THEN /\ has_key(prepared[2], name)
                 /\ od_get(prepared[2], name) =
                        [text |-> NoneStr, quote |-> "\"", space |-> " ",
                         eq |-> "=", expr |-> DynExpr(name)]
            ELSE ~has_key(prepared[2], name)

\* An xmlns declaration of a dropped namespace and an attribute in a dropped
\* namespace, one with a dynamic expression and one without.
C1_Witness ==
    /\ prepared # <<>>
    /\ \E n \in DroppedNames : n \in DynKeys /\ has_key(prepared[2], n)
    /\ \E n \in DroppedNames : n \notin DynKeys
    /\ \E j \in 1..Len(call.attrs) :
          /\ call.ns_attributes[j][1] = XMLNS_NS
          /\ call.attrs[j].value \in call.drop_ns

\* The names of the static attributes that are not dropped.
KeptNames ==
    {call.attrs[j].name : j \in 1..Len(call.attrs)} \ DroppedNames

\* Where a name is first written among the static attributes, where it is
\* last written, and where it is supplied among the dynamic ones.
FirstStatic(name) ==
    CHOOSE j \in 1..Len(call.attrs) :
        /\ call.attrs[j].name = name
        /\ \A i \in 1..(j - 1) : call.attrs[i].name # name

LastStatic(name) ==
    CHOOSE j \in 1..Len(call.attrs) :
        /\ call.attrs[j].name = name
        /\ \A i \in (j + 1)..Len(call.attrs) : call.attrs[i].name # name

DynPos(name) ==
    CHOOSE i \in 1..Len(call.dyn_attributes) : call.dyn_attributes[i][1] = name

\* C12: the mapping prepare_attributes returns has one entry for every static
\* name that is not dropped and for every dynamic name.  The static names
\* come first, in source order, each with the value, quote, space and eq of
\* its attribute (of the last attribute written with that name, should the
\* element repeat one), and with the dynamic expression for the name or none.
\* The names that are only dynamic follow, in the order they were supplied,
\* with no text, quote '"', space " ", eq "=" and their expression.
C12_StaticFirstThenDynamic ==
    prepared # <<>> =>
        LET r == prepared[2] IN
        /\ \A i, j \in 1..Len(r) : i # j => r[i][1] # r[j][1]
        /\ {r[i][1] : i \in 1..Len(r)} = KeptNames \cup DynKeys
        /\ \A i, j \in 1..Len(r) :
              i < j =>
                 /\ r[j][1] \in KeptNames => r[i][1] \in KeptNames
                 /\ (r[i][1] \in KeptNames /\ r[j][1] \in KeptNames)
                       => FirstStatic(r[i][1]) < FirstStatic(r[j][1])
                 /\ (r[i][1] \notin KeptNames /\ r[j][1] \notin KeptNames)
                       => DynPos(r[i][1]) < DynPos(r[j][1])
        /\ \A i \in 1..Len(r) :
              LET name == r[i][1]
                  expr == IF name \in DynKeys THEN DynExpr(name) ELSE NoneStr
              IN  IF name \in KeptNames
                  THEN LET a == call.attrs[LastStatic(name)] IN
                       r[i][2] = [text |-> a.value, quote |-> a.quote,
                                  space |-> a.space, eq |-> a.eq, expr |-> expr]
                  ELSE r[i][2] = [text |-> NoneStr, quote |-> "\"", space |-> " ",
                                  eq |-> "=", expr |-> expr]

\* Two static attributes, the first with a dynamic expression and the second
\* without, followed by an attribute that is only dynamic and was supplied
\* before the expression of the first.
C12_Witness ==
    /\ prepared # <<>>
    /\ Len(prepared[2]) = 3
    /\ Len(call.attrs) = 2
    /\ call.attrs[1].name # call.attrs[2].name
    /\ call.attrs[1].quote = "'"
    /\ prepared[2][1][1] = call.attrs[1].name
    /\ prepared[2][1][2].quote = "'"
    /\ prepared[2][1][2].expr # NoneStr
    /\ prepared[2][2][2].expr = NoneStr
    /\ prepared[2][3][2].text = NoneStr
    /\ call.dyn_attributes[1][1] = prepared[2][3][1]

-----------------------------------------------------------------------------
(* Properties of RepeatDict and RepeatItem.                                *)

LookupOps == {"__getitem__", "__getattr__", "get"}

\* C2 as stated: a lookup of a registered name, by subscript, by attribute
\* access or by get, returns the RepeatItem cached for the name.
C2_EveryLookupReturnsTheItem ==
    (ret.op \in LookupOps /\ ret.key \in DOMAIN repeat) =>
        /\ ret.kind = "RepeatItem"
        /\ ret.obj = repeat[ret.key].repeat

\* One step of the render, seen through the outcome it leaves in ret.
Registered(k) == ret'.op = "__call__" /\ ret'.key = k /\ ret'.exc = ""

LookedUp(k) ==
    /\ ret'.op \in LookupOps
    /\ ret'.key = k
    /\ k \in DOMAIN repeat
    /\ ~(ret'.op = "__getattr__" /\ k \in DictAttributes)

C2_Step ==
    /\ \A k \in Keys :
          LookedUp(k) =>
              /\ ret'.exc = ""
              /\ ret'.kind = "RepeatItem"
              /\ ret'.obj = repeat'[k].repeat
              /\ IF repeat[k].repeat # None
                 THEN ret'.obj = repeat[k].repeat /\ items' = items
                 ELSE /\ ret'.obj \notin 1..Len(items)
                      /\ Len(items') = Len(items) + 1
    /\ \A k \in DOMAIN repeat :
          repeat[k].repeat # None =>
              \/ k \in DOMAIN repeat' /\ repeat'[k].repeat = repeat[k].repeat
              \/ Registered(k)
    /\ \A k \in Keys :
          Registered(k) => repeat'[k].repeat = None /\ items' = items
    /\ \A k \in Keys \cap DictAttributes :
          (ret'.op = "__getattr__" /\ ret'.key = k) => ret'.kind = "method"

\* C2 amended: after registration of a name, every lookup of the name by
\* subscript or by get, and by attribute access when the name is not an
\* attribute dict itself has (items, keys, get, ...), returns the identical
\* RepeatItem: the first lookup creates it, registration does not, and the
\* cached instance changes only when the name is registered again.
\* Attribute access under a name dict defines returns the dict's attribute.
C2_SameItemUntilRegisteredAgain == [][C2_Step]_vars

\* A repeated lookup: the item of "x" is older than the item of "items", so
\* this get of "x" comes after a lookup of the other name, which came after
\* the lookup that created the item; the cursor of "x" has moved.
C2_Witness ==
    /\ ret.op = "get" /\ ret.key = "x" /\ ret.obj = 1
    /\ Len(items) = 2
    /\ "items" \in DOMAIN repeat /\ repeat["items"].repeat = 2
    /\ iterators[repeat["x"].iterator].pos = 1

C3_Step ==
    \A k \in DOMAIN repeat :
        /\ Registered(k) =>
              LET new == repeat'[k].iterator IN
              /\ new \notin 1..Len(iterators)
              /\ iterators'[new] = [len |-> ret'.length, pos |-> 0]
              /\ repeat'[k] = [iterator |-> new, length |-> ret'.length,
                               repeat |-> None]
              /\ \A j \in DOMAIN repeat \ {k} : repeat'[j] = repeat[j]
        /\ (ret'.op \in {"__getitem__", "get"} /\ ret'.key = k
               /\ repeat[k].repeat = None) =>
              /\ ret'.obj \notin 1..Len(items)
              /\ items'[ret'.obj] = [length |-> repeat[k].length,
                                     _iterator |-> repeat[k].iterator]
              /\ \A i \in 1..Len(items) : items'[i] = items[i]
              /\ repeat'[k].repeat = ret'.obj

\* C3: registering a name that is already registered replaces its entry by
\* (new cursor, new length, no cached view), whatever the old entry held, and
\* the next lookup of the name builds a RepeatItem that is none of the
\* existing ones and is bound to the cursor and length of the entry.
C3_RegisterOverwrites == [][C3_Step]_vars

\* "x" was registered twice and looked up after each registration: item 1 is
\* bound to the old cursor, stopped mid-iteration, item 2 to the new one, of
\* another length.
C3_Witness ==
    /\ DOMAIN repeat = {"x"}
    /\ Len(iterators) = 2 /\ Len(items) = 2
    /\ items[1]._iterator = 1 /\ items[1].length = 2 /\ iterators[1].pos = 1
    /\ repeat["x"] = [iterator |-> 2, length |-> 1, repeat |-> 2]
    /\ items[2] = [length |-> 1, _iterator |-> 2]
    /\ ret.op = "__getitem__" /\ ret.obj = 2

\* C4: a read of index gives the number of advancements of the cursor minus
\* one, and a read of number gives that number, at the moment of the read.
C4_IndexFollowsCursor ==
    ret.op \in {"index", "number"} =>
        LET k == iterators[items[ret.obj]._iterator].pos IN
        /\ ret.op = "index" => ret.int = k - 1
        /\ ret.op = "number" => ret.int = k

\* index read as 1 after the second advancement of a cursor.
C4_Witness ==
    /\ ret.op = "index" /\ ret.int = 1
    /\ iterators[items[ret.obj]._iterator] = [len |-> 2, pos |-> 2]

\* C5: start is true exactly at the first element (after one advancement,
\* index 0) and end exactly at the last (after as many advancements as the
\* sequence has elements, index length - 1).
C5_StartEnd ==
    LET n == iterators[1].len
        k == iterators[1].pos
    IN  /\ ret.op = "start" => (ret.bool <=> k = 1)
        /\ ret.op = "end" => (ret.bool <=> k = n)
        /\ (ret.op = "end" /\ n = 4 /\ k = 1) => ~ret.bool

\* end read as true at position 3 of a 4-element sequence.
C5_Witness ==
    /\ ret.op = "end" /\ ret.bool
    /\ iterators[1] = [len |-> 4, pos |-> 4]
    /\ RepeatItem_index(1) = 3

\* C10 as stated: letter and Letter fail with ValueError when index < 0.
C10_ValueErrorBeforeFirst ==
    (ret.op \in {"letter", "Letter"} /\ iterators[1].pos = 0) =>
        ret.exc = "ValueError"

\* C10 amended: letter and Letter fail with TypeError ("No iteration
\* position") whenever index < 0, that is before the cursor has been advanced
\* at all, which includes every read over an empty sequence; they return a
\* label of at least one letter whenever index >= 0.
C10_TypeErrorBeforeFirst ==
    ret.op \in {"letter", "Letter"} =>
        IF iterators[1].pos = 0
        THEN ret.exc = "TypeError"
        ELSE ret.exc = "" /\ ret.kind = "str" /\ Len(ret.str) >= 1

\* Letter read over an empty sequence.
C10_Witness ==
    /\ ret.op = "Letter" /\ ret.exc = "TypeError"
    /\ iterators[1].len = 0

-----------------------------------------------------------------------------
(* Properties of the clause parsers.                                       *)

PartsOf == split_parts(clause)

\* C6: parse_defines never raises; it returns None when some part of the
\* clause does not match DEFINE_RE (the empty clause has one part, which does
\* not match), and otherwise one triple per part, in the order of the parts.
C6_DefinesAllOrNothing ==
    parsed.op = "parse_defines" =>
        /\ parsed.out.exc = ""
        /\ clause = <<>> => parsed.out.none
        /\ IF \E k \in 1..Len(PartsOf) : ~DEFINE_RE_match(PartsOf[k]).matched
           THEN parsed.out.none /\ parsed.out.value = <<>>
           ELSE /\ ~parsed.out.none
                /\ Len(parsed.out.value) = Len(PartsOf)
                /\ \A k \in 1..Len(PartsOf) :
                      LET m == DEFINE_RE_match(PartsOf[k]) IN
                      /\ parsed.out.value[k][2] = define_names(m.name)
                      /\ parsed.out.value[k][3] = m.expr

\* The first part of the clause is a definition, a later one is not, and
\* None is returned.
C6_Witness ==
    /\ parsed.op = "parse_defines" /\ parsed.out.none
    /\ Len(PartsOf) >= 2
    /\ DEFINE_RE_match(PartsOf[1]).matched

\* The first part that parse_attributes cannot accept: it does not match
\* ATTR_RE, or its name is the name of an earlier part.  0 when there is none.
FirstBadPart ==
    LET bad == {k \in 1..Len(PartsOf) :
                   \/ ~ATTR_RE_match(PartsOf[k]).matched
                   \/ \E j \in 1..(k - 1) :
                         ATTR_RE_match(PartsOf[j]).name =
                             ATTR_RE_match(PartsOf[k]).name}
    IN  IF bad = {} THEN 0 ELSE CHOOSE k \in bad : \A j \in bad : k <= j

\* C7: parse_attributes raises LanguageError when a part does not match
\* ATTR_RE or repeats the name of an earlier part (the message tells which,
\* for the first such part) and returns no mapping then; otherwise it returns
\* exactly one entry per part, in the order of the parts.
C7_AttributesNeverOverwrite ==
    parsed.op = "parse_attributes" =>
        IF FirstBadPart # 0
        THEN /\ parsed.out.exc = "LanguageError"
             /\ parsed.out.value = <<>>
             /\ parsed.out.msg =
                   IF ATTR_RE_match(PartsOf[FirstBadPart]).matched
                   THEN "Duplicate attribute name in attributes."
                   ELSE "Bad syntax in attributes."
        ELSE /\ parsed.out.exc = ""
             /\ Len(parsed.out.value) = Len(PartsOf)
             /\ \A k \in 1..Len(PartsOf) :
                   parsed.out.value[k] = <<ATTR_RE_match(PartsOf[k]).name,
                                           ATTR_RE_match(PartsOf[k]).expr>>
             /\ clause = <<"c","l","a","s","s"," ","f","o","o",";","i","d"," ","b","a","r">> =>
                   parsed.out.value = << <<<<"c","l","a","s","s">>, <<"f","o","o">>>>, <<<<"i","d">>, <<"b","a","r">>>> >>

\* parse_attributes("class foo;class bar") raised the duplicate-name error.
C7_Witness ==
    /\ clause = <<"c","l","a","s","s"," ","f","o","o",";","c","l","a","s","s"," ","b","a","r">>
    /\ parsed.op = "parse_attributes"
    /\ parsed.out.exc = "LanguageError"
    /\ parsed.out.msg = "Duplicate attribute name in attributes."

\* C8 as stated: split_parts("x &amp; y; z") == ["x &amp; y", "z"].
C8_ExampleTrimmed ==
    (parsed.op = "split_parts" /\ clause = <<"x"," ","&","a","m","p",";"," ","y",";"," ","z">>) =>
        parsed.out.value = <<<<"x"," ","&","a","m","p",";"," ","y">>, <<"z">>>>

\* Stand-ins for the entities of a clause, in the order they occur.
EntityTokens == <<"ENTITY1", "ENTITY2", "ENTITY3", "ENTITY4", "ENTITY5", "ENTITY6">>

\* The texts ENTITY_RE matches in s, left to right.
RECURSIVE EntityTexts(_)
EntityTexts(s) ==
    IF s = <<>> THEN <<>>
    ELSE LET m == entity_match(s) IN
         IF m > 0 THEN <<SubSeq(s, 1, m)>> \o EntityTexts(from(s, m + 1))
         ELSE EntityTexts(Tail(s))

\* s with the k-th, (k+1)-th, ... entity each replaced by its stand-in.
RECURSIVE Protect(_, _)
Protect(s, k) ==
    IF s = <<>> THEN <<>>
    ELSE LET m == entity_match(s) IN
         IF m > 0 THEN <<EntityTokens[k]>> \o Protect(from(s, m + 1), k + 1)
         ELSE <<s[1]>> \o Protect(Tail(s), k)

\* A part with every stand-in replaced by the text of its entity.
RECURSIVE Expand(_, _)
Expand(part, texts) ==
    IF part = <<>> THEN <<>>
    ELSE IF \E k \in 1..Len(texts) : EntityTokens[k] = part[1]
         THEN texts[CHOOSE k \in 1..Len(texts) : EntityTokens[k] = part[1]]
                  \o Expand(Tail(part), texts)
         ELSE <<part[1]>> \o Expand(Tail(part), texts)

\* C8 amended: an entity that ENTITY_RE matches behaves in split_parts as one
\* ordinary character would: it stays whole inside its part, its semicolon
\* is no delimiter, and the delimiters next to it still split.  Parts are
\* not trimmed: split_parts("x &amp; y; z") == ["x &amp; y", " z"].
C8_EntitiesActAsCharacters ==
    parsed.op = "split_parts" =>
        /\ LET plain == split_plain(Protect(clause, 1))
           IN  parsed.out.value =
                   [i \in 1..Len(plain) |-> Expand(plain[i], EntityTexts(clause))]
        /\ clause = <<"x"," ","&","a","m","p",";"," ","y",";"," ","z">> => parsed.out.value = <<<<"x"," ","&","a","m","p",";"," ","y">>, <<" ","z">>>>

\* split_parts("x &amp; y; z") returned its two parts.
C8_Witness ==
    /\ parsed.op = "split_parts"
    /\ clause = <<"x"," ","&","a","m","p",";"," ","y",";"," ","z">>
    /\ parsed.out.value = <<<<"x"," ","&","a","m","p",";"," ","y">>, <<" ","z">>>>

\* A clause read from left to right: a doubled semicolon adds one semicolon
\* to the current part, a single one ends the part.
RECURSIVE ScanParts(_, _)
ScanParts(s, cur) ==
    IF s = <<>> THEN <<cur>>
    ELSE IF Len(s) >= 2 /\ s[1] = ";" /\ s[2] = ";"
         THEN ScanParts(from(s, 3), Append(cur, ";"))
    ELSE IF s[1] = ";"
         THEN <<cur>> \o ScanParts(Tail(s), <<>>)
    ELSE ScanParts(Tail(s), Append(cur, s[1]))

IsBlank(s) == \A i \in 1..Len(s) : s[i] \in Whitespace

HasEntity(s) == \E p \in 1..Len(s) : entity_match(from(s, p)) > 0

\* C9: for a clause without entities, split_parts splits at every single
\* semicolon, keeps one semicolon for every doubled one, and drops the last
\* part when there are two or more and it is empty or blank; a clause with no
\* semicolon comes back as its only part.
C9_SplitAtSingleSemicolons ==
    (parsed.op = "split_parts" /\ ~HasEntity(clause)) =>
        LET scanned == ScanParts(clause, <<>>)
            n == Len(scanned)
        IN  /\ parsed.out.value =
                   IF n >= 2 /\ IsBlank(scanned[n])
                   THEN SubSeq(scanned, 1, n - 1) ELSE scanned
            /\ (\A i \in 1..Len(clause) : clause[i] # ";") =>
                   parsed.out.value = <<clause>>
            /\ clause \in {<<"a", ";">>, <<"a">>} => parsed.out.value = << <<"a">> >>

\* split_parts("a;;b") returned the single part "a;b".
C9_Witness ==
    /\ parsed.op = "split_parts"
    /\ clause = <<"a", ";", ";", "b">>
    /\ parsed.out.value = << <<"a", ";", "b">> >>

\* The identifiers written in a text, left to right: its maximal runs of
\* name characters.
RECURSIVE IdentRuns(_, _)
IdentRuns(s, cur) ==
    IF s = <<>> THEN (IF cur = <<>> THEN <<>> ELSE <<cur>>)
    ELSE IF s[1] \in NameChars THEN IdentRuns(Tail(s), Append(cur, s[1]))
    ELSE (IF cur = <<>> THEN <<>> ELSE <<cur>>) \o IdentRuns(Tail(s), <<>>)

\* The names written in the parts, part by part, for a clause whose parts
\* all match DEFINE_RE.
RECURSIVE WrittenNames(_)
WrittenNames(parts) ==
    IF parts = <<>> THEN <<>>
    ELSE IdentRuns(DEFINE_RE_match(Head(parts)).name, <<>>)
             \o WrittenNames(Tail(parts))

Repeats(ns) == \E i, j \in 1..Len(ns) : i # j /\ ns[i] = ns[j]

\* C11 as stated: parse_defines rejects a clause that defines a name twice
\* with the duplicate-name error, and so never returns a name twice.
C11_RepeatedNameRejected ==
    parsed.op = "parse_defines" =>
        /\ ~Repeats(names_of(parsed.out.value))
        /\ (/\ \A k \in 1..Len(PartsOf) : DEFINE_RE_match(PartsOf[k]).matched
            /\ Repeats(WrittenNames(PartsOf)))
               => parsed.out.exc = "LanguageError"

\* C11 amended: parse_defines has no check for repeated names.  It raises
\* nothing, and for a clause whose parts all match it returns every name as
\* often as the clause writes it, in the order written: a name defined in two
\* parts is in two triples, a name written twice in one list is twice in the
\* names of that triple.
C11_RepeatedNameReturnedTwice ==
    parsed.op = "parse_defines" =>
        /\ parsed.out.exc = ""
        /\ ~parsed.out.none =>
              names_of(parsed.out.value) = WrittenNames(PartsOf)
        /\ clause = <<"a"," ","b",";","a"," ","b">> =>
              parsed.out.value = << <<kw_local, <<<<"a">>>>, <<"b">>>>,
                                    <<kw_local, <<<<"a">>>>, <<"b">>>> >>
        /\ clause = <<"(","a",",","a",")"," ","b">> =>
              parsed.out.value = << <<kw_local, <<<<"a">>, <<"a">>>>, <<"b">>>> >>

\* parse_defines returned a name twice: from two parts, and from one list.
C11_Witness ==
    /\ parsed.op = "parse_defines"
    /\ ~parsed.out.none
    /\ Repeats(names_of(parsed.out.value))
    /\ \/ clause = <<"a"," ","b",";","a"," ","b">>
       \/ clause = <<"(","a",",","a",")"," ","b">>

\* The define grammar, read off a part without running the matcher: optional
\* whitespace, optionally a scope keyword and whitespace, then an identifier
\* or a parenthesized list of identifiers, whitespace, and the expression.
IsIdent(s) ==
    /\ s # <<>>
    /\ s[1] \in NameStart
    /\ \A i \in 2..Len(s) : s[i] \in NameChars

\* Identifiers separated by commas, whitespace allowed after a comma only.
IsIdentList(s) ==
    /\ Len(s) >= 3
    /\ s[1] = "(" /\ s[Len(s)] = ")"
    /\ LET inner == SubSeq(s, 2, Len(s) - 1)
           n == Len(inner)
       IN  /\ inner[1] \in NameStart
           /\ inner[n] \in NameChars
           /\ \A i \in 1..n :
                 /\ inner[i] \in NameChars \cup Whitespace \cup {","}
                 /\ inner[i] = "," => i > 1 /\ inner[i - 1] \in NameChars
                 /\ inner[i] \in Whitespace =>
                       i > 1 /\ inner[i - 1] \in Whitespace \cup {","}
                 /\ (inner[i] \in NameChars /\ i > 1 /\ inner[i - 1] \notin NameChars)
                       => inner[i] \in NameStart

\* The text before the names: blank, or blank, a keyword and whitespace.
IsScopePrefix(prefix, kw) ==
    IF kw = <<>> THEN IsBlank(prefix)
    ELSE \E a \in 0..Len(prefix) :
            /\ IsBlank(SubSeq(prefix, 1, a))
            /\ Len(prefix) > a + Len(kw)
            /\ SubSeq(prefix, a + 1, a + Len(kw)) = kw
            /\ IsBlank(SubSeq(prefix, a + Len(kw) + 1, Len(prefix)))

\* Every way of reading a part by the grammar: the keyword written (or
\* none), and where the names begin and end.
Readings(part) ==
    {r \in [kw : {<<>>, kw_global, kw_local},
            p : 1..Len(part), q : 1..Len(part)] :
        /\ r.p <= r.q
        /\ r.q < Len(part)
        /\ part[r.q + 1] \in Whitespace
        /\ \/ IsIdent(SubSeq(part, r.p, r.q))
           \/ IsIdentList(SubSeq(part, r.p, r.q))
        /\ IsScopePrefix(SubSeq(part, 1, r.p - 1), r.kw)}

\* The part matches the grammar; the reading taken is the one with a
\* keyword when there is one.
Reading(part) ==
    LET R == Readings(part)
        K == {r \in R : r.kw # <<>>}
    IN  IF K # {} THEN CHOOSE r \in K : TRUE ELSE CHOOSE r \in R : TRUE

\* The rest of the part after the whitespace that follows position q.
RestAfter(part, q) ==
    LET rest == {i \in (q + 1)..Len(part) : part[i] \notin Whitespace}
    IN  IF rest = {} THEN <<>>
        ELSE SubSeq(part, CHOOSE i \in rest : \A j \in rest : i <= j, Len(part))

\* C13: for a clause whose parts all match the define grammar, parse_defines
\* returns one triple per part: the keyword written, or "local" when the part
\* has none; the identifier, or the identifiers of the list in the order
\* written, without their whitespace; and the rest of the part after the
\* whitespace that follows the names.
C13_DefineTriples ==
    (/\ parsed.op = "parse_defines"
     /\ \A k \in 1..Len(PartsOf) : Readings(PartsOf[k]) # {}) =>
        /\ parsed.out.exc = "" /\ ~parsed.out.none
        /\ Len(parsed.out.value) = Len(PartsOf)
        /\ \A k \in 1..Len(PartsOf) :
              LET part == PartsOf[k]
                  r == Reading(part)
              IN  parsed.out.value[k] =
                     <<IF r.kw = <<>> THEN kw_local ELSE r.kw,
                       IdentRuns(SubSeq(part, r.p, r.q), <<>>),
                       RestAfter(part, r.q)>>
        /\ clause = <<"l","o","c","a","l"," ","x"," ","p","a","t","h","1",";"," ","g","l","o","b","a","l"," ","(","a",",","b",")"," ","p","a","t","h","2">> =>
              parsed.out.value =
                 << <<kw_local, <<<<"x">>>>, <<"p","a","t","h","1">>>>,
                    <<kw_global, <<<<"a">>, <<"b">>>>, <<"p","a","t","h","2">>>> >>

\* parse_defines("local x path1; global (a,b) path2") returned its two
\* triples.
C13_Witness ==
    /\ parsed.op = "parse_defines"
    /\ clause = <<"l","o","c","a","l"," ","x"," ","p","a","t","h","1",";"," ","g","l","o","b","a","l"," ","(","a",",","b",")"," ","p","a","t","h","2">>
    /\ Len(parsed.out.value) = 2
    /\ parsed.out.value[2][1] = kw_global
    /\ parsed.out.value[2][2] = <<<<"a">>, <<"b">>>>

\* The registration step just taken, whatever its outcome.
Registering == ret'.op = "__call__"

\* C14: a registration of a value that is neither iterable nor None raises
\* TypeError and changes nothing: no entry is made and none is replaced.  A
\* registration of None or of a sequence succeeds, of None with length 0,
\* and returns the cursor and the length it stored under the name; the
\* cursor is new and stands before the first of length elements.
C14_Step ==
    Registering =>
        IF ret'.arg \notin {"tuple", "NoneType"}
        THEN /\ ret'.exc = "TypeError"
             /\ UNCHANGED <<repeat, iterators, items>>
        ELSE /\ ret'.exc = ""
             /\ ret'.arg = "NoneType" => ret'.length = 0
             /\ ret'.key \in DOMAIN repeat'
             /\ ret'.obj = repeat'[ret'.key].iterator
             /\ ret'.length = repeat'[ret'.key].length
             /\ ret'.obj \notin 1..Len(iterators)
             /\ iterators'[ret'.obj] = [len |-> ret'.length, pos |-> 0]

C14_RegistrationOutcome == [][C14_Step]_vars

\* A registration of an integer under a registered name raised TypeError and
\* the entry of the name, of length 0, is still there; the other name has no
\* entry.
C14_Witness ==
    /\ ret.op = "__call__" /\ ret.arg = "int" /\ ret.exc = "TypeError"
    /\ ret.key \in DOMAIN repeat
    /\ repeat[ret.key].length = 0
    /\ "x" \notin DOMAIN repeat

\* C15: for a name with no entry, the subscript lookup raises KeyError and
\* get returns its default without raising, and neither changes the
\* dictionary.  For a registered name both return the RepeatItem that is
\* cached for the name when they return: the one cached before, when there
\* was one, and otherwise a new one over the cursor and length of the entry.
C15_Step ==
    ret'.op \in {"__getitem__", "get"} =>
        LET k == ret'.key IN
        IF k \notin DOMAIN repeat
        THEN /\ UNCHANGED <<repeat, iterators, items>>
             /\ ret'.op = "__getitem__" => ret'.exc = "KeyError"
             /\ ret'.op = "get" => ret'.exc = "" /\ ret'.kind = "default"
        ELSE /\ ret'.exc = "" /\ ret'.kind = "RepeatItem"
             /\ ret'.obj = repeat'[k].repeat
             /\ ret'.obj \in 1..Len(items')
             /\ IF repeat[k].repeat # None
                THEN ret'.obj = repeat[k].repeat /\ UNCHANGED <<repeat, items>>
                ELSE /\ ret'.obj \notin 1..Len(items)
                     /\ items'[ret'.obj] =
                           RepeatItem_init(repeat[k].iterator, repeat[k].length)

C15_MissingAndGet == [][C15_Step]_vars

\* get returned its default for a name that has no entry, while the other
\* name is registered and has its RepeatItem.
C15_Witness ==
    /\ ret.op = "get" /\ ret.kind = "default" /\ ret.exc = ""
    /\ ret.key \notin DOMAIN repeat
    /\ \E k \in DOMAIN repeat : repeat[k].repeat # None

\* The clause without its leading whitespace.
Unindented(c) ==
    LET a == CHOOSE i \in 0..Len(c) :
                 /\ IsBlank(SubSeq(c, 1, i))
                 /\ i < Len(c) => c[i + 1] \notin Whitespace
    IN  SubSeq(c, a + 1, Len(c))

\* The substitution keywords that begin a text and have whitespace after.
KeywordsAt(t) ==
    {kw \in {kw_text, kw_structure} :
        /\ Len(t) > Len(kw)
        /\ SubSeq(t, 1, Len(kw)) = kw
        /\ t[Len(kw) + 1] \in Whitespace}

\* C18: parse_substitution never raises and never returns None.  When the
\* clause, after optional whitespace, begins with text or structure followed
\* by whitespace, it returns that keyword and what follows the whitespace;
\* otherwise it returns "text" and the clause from its first character that
\* is not whitespace.
C18_SubstitutionAlwaysParses ==
    parsed.op = "parse_substitution" =>
        LET t == Unindented(clause)
            K == KeywordsAt(t)
        IN  /\ parsed.out.exc = "" /\ ~parsed.out.none
            /\ parsed.out.value =
                  IF K # {}
                  THEN LET kw == CHOOSE k \in K : TRUE
                       IN  <<kw, RestAfter(t, Len(kw))>>
                  ELSE <<kw_text, t>>
            /\ clause = <<"s","t","r","u","c","t","u","r","e"," ","m","y","/","e","x","p","r">> =>
                  parsed.out.value = <<kw_structure, <<"m","y","/","e","x","p","r">>>>
            /\ clause = <<"p","l","a","i","n","/","e","x","p","r">> =>
                  parsed.out.value = <<kw_text, <<"p","l","a","i","n","/","e","x","p","r">>>>
            /\ clause = <<>> => parsed.out.value = <<kw_text, <<>>>>

\* parse_substitution("structure my/expr") returned its pair.
C18_Witness ==
    /\ parsed.op = "parse_substitution"
    /\ clause = <<"s","t","r","u","c","t","u","r","e"," ","m","y","/","e","x","p","r">>
    /\ parsed.out.value = <<kw_structure, <<"m","y","/","e","x","p","r">>>>

\* C19: a call of next on a RepeatItem raises NotImplementedError in every
\* state and changes nothing: the cursor has as many unconsumed elements
\* after the call as before, and index is the same.  Only next(iterator),
\* called on the cursor by the loop that drives it, moves the position.
C19_Step ==
    /\ ret'.op = "next" =>
          /\ ret'.exc = "NotImplementedError"
          /\ UNCHANGED <<repeat, iterators, items>>
          /\ \A self \in 1..Len(items) :
                ret'.obj = self =>
                   /\ length_hint(items[self]._iterator)' =
                         length_hint(items[self]._iterator)
                   /\ RepeatItem_index(self)' = RepeatItem_index(self)
    /\ iterators' # iterators => ret'.op = "next(iterator)"

C19_NextNeverAdvances == [][C19_Step]_vars

\* next was called in the middle of a loop, and before its first element.
C19_Witness ==
    /\ ret.op = "next" /\ ret.exc = "NotImplementedError"
    /\ iterators[1].len >= 2
    /\ iterators[1].pos \in {0, 1}

\* C20: a RepeatItem, once made, stays bound to its cursor and its length.
\* A cursor changes only when next is called on that very cursor, so the
\* index of an item changes only by the advance of the cursor it was made
\* over: not by the advance of the cursor of a later or an earlier
\* registration of the name, and not by a registration.  The entry of a name
\* (cursor, length, cached item) changes only in a registration or a lookup
\* of that name, and no entry is ever removed.
C20_Step ==
    /\ Len(items') >= Len(items)
    /\ Len(iterators') >= Len(iterators)
    /\ DOMAIN repeat \subseteq DOMAIN repeat'
    /\ \A self \in 1..Len(items) :
          /\ items'[self] = items[self]
          /\ RepeatItem_index(self)' # RepeatItem_index(self) =>
                /\ ret'.op = "next(iterator)"
                /\ ret'.obj = items[self]._iterator
    /\ \A it \in 1..Len(iterators) :
          iterators'[it] # iterators[it] =>
             ret'.op = "next(iterator)" /\ ret'.obj = it
    /\ \A k \in DOMAIN repeat :
          repeat'[k] # repeat[k] =>
             /\ ret'.key = k
             /\ ret'.op \in LookupOps \cup {"__call__"}
             /\ ret'.op \in LookupOps =>
                   /\ repeat'[k].iterator = repeat[k].iterator
                   /\ repeat'[k].length = repeat[k].length

C20_ShadowingIsolation == [][C20_Step]_vars

\* A name registered twice and looked up after each registration: the item
\* of the first registration reads index 0, the position of its own cursor,
\* after the cursor of the second registration has been advanced twice.
C20_Witness ==
    /\ Len(items) = 2
    /\ items[1]._iterator = 1 /\ items[2]._iterator = 2
    /\ DOMAIN repeat = {"x"}
    /\ repeat["x"].repeat = 2
    /\ iterators[1].len = 2 /\ iterators[2].len = 2
    /\ iterators[1].pos = 1 /\ iterators[2].pos = 2
    /\ ret.op = "index" /\ ret.obj = 1 /\ ret.int = 0

-----------------------------------------------------------------------------
(* Properties of the labels of a position.                                 *)

\* The position of the RepeatItem that was read: elements consumed, less 1.
IndexRead == iterators[items[ret.obj]._iterator].pos - 1

\* The digits of base 26, digit 0 first, in either case.
DigitsLower == <<"a","b","c","d","e","f","g","h","i","j","k","l","m",
                 "n","o","p","q","r","s","t","u","v","w","x","y","z">>
DigitsUpper == <<"A","B","C","D","E","F","G","H","I","J","K","L","M",
                 "N","O","P","Q","R","S","T","U","V","W","X","Y","Z">>

\* The number a label denotes in base 26, most significant digit first.
RECURSIVE Base26(_, _)
Base26(s, digits) ==
    IF s = <<>> THEN 0
    ELSE LET n == Len(s)
             d == CHOOSE i \in 0..25 : digits[i + 1] = s[n]
         IN  Base26(SubSeq(s, 1, n - 1), digits) * 26 + d

\* s is the base-26 numeral of index: at least one digit, no leading zero
\* digit on a numeral of two or more.
IsBase26Of(s, index, digits) ==
    /\ Len(s) >= 1
    /\ \A i \in 1..Len(s) : \E d \in 1..26 : digits[d] = s[i]
    /\ Len(s) >= 2 => s[1] # digits[1]
    /\ Base26(s, digits) = index

\* C16: at every index >= 0, letter is the base-26 numeral of index with the
\* digits a..z and Letter the same numeral with A..Z: 0 is "a", 25 is "z",
\* 26 is "ba".
C16_LetterIsBase26 ==
    (ret.op \in {"letter", "Letter"} /\ IndexRead >= 0) =>
        /\ ret.exc = ""
        /\ IsBase26Of(ret.str, IndexRead,
                      IF ret.op = "letter" THEN DigitsLower ELSE DigitsUpper)
        /\ (ret.op = "letter" /\ IndexRead = 0) => ret.str = <<"a">>
        /\ (ret.op = "letter" /\ IndexRead = 25) => ret.str = <<"z">>
        /\ (ret.op = "letter" /\ IndexRead = 26) => ret.str = <<"b", "a">>
        /\ (ret.op = "Letter" /\ IndexRead = 26) => ret.str = <<"B", "A">>

\* letter was read at index 26, the first label of two letters.
C16_Witness ==
    /\ ret.op = "letter" /\ ret.exc = ""
    /\ IndexRead = 26
    /\ ret.str = <<"b", "a">>

\* The Roman digit d (0..9) of one decimal place, written with the symbols
\* of the place for one, five and ten.
RomanDigit(d, one, five, ten) ==
    CASE d = 0 -> <<>>
      [] d = 1 -> <<one>>
      [] d = 2 -> <<one, one>>
      [] d = 3 -> <<one, one, one>>
      [] d = 4 -> <<one, five>>
      [] d = 5 -> <<five>>
      [] d = 6 -> <<five, one>>
      [] d = 7 -> <<five, one, one>>
      [] d = 8 -> <<five, one, one, one>>
      [] d = 9 -> <<one, ten>>

\* The subtractive numeral of n >= 1, place by place: an M for every
\* thousand, then the hundreds, the tens and the units.
Numeral(n, sym) ==
    [i \in 1..(n \div 1000) |-> sym[7]]
        \o RomanDigit((n \div 100) % 10, sym[5], sym[6], sym[7])
        \o RomanDigit((n \div 10) % 10, sym[3], sym[4], sym[5])
        \o RomanDigit(n % 10, sym[1], sym[2], sym[3])

SymbolsUpper == <<"I", "V", "X", "L", "C", "D", "M">>
SymbolsLower == <<"i", "v", "x", "l", "c", "d", "m">>

\* C17: Roman never raises; at a position with index + 1 >= 1 it is the
\* subtractive Roman numeral of index + 1 (index 0 is "I", index 3 is "IV"),
\* roman is that numeral in lower case, and with index + 1 <= 0 both are the
\* empty string.
C17_RomanNumeral ==
    ret.op \in {"Roman", "roman"} =>
        LET n == IndexRead + 1
            sym == IF ret.op = "Roman" THEN SymbolsUpper ELSE SymbolsLower
        IN  /\ ret.exc = ""
            /\ ret.str = IF n <= 0 THEN <<>> ELSE Numeral(n, sym)
            /\ (ret.op = "Roman" /\ IndexRead = 0) => ret.str = <<"I">>
            /\ (ret.op = "Roman" /\ IndexRead = 3) => ret.str = <<"I", "V">>
            /\ (ret.op = "roman" /\ IndexRead = 3) => ret.str = <<"i", "v">>
            /\ (ret.op = "Roman" /\ n = 1994) =>
                  ret.str = <<"M", "C", "M", "X", "C", "I", "V">>

\* Roman was read at index 3 and gave "IV".
C17_Witness ==
    /\ ret.op = "Roman" /\ ret.exc = ""
    /\ IndexRead = 3
    /\ ret.str = <<"I", "V">>

====
